---- MODULE Spec2Model ----
(***************************************************************************)
(* Fullwidth-character support of the ASCII renderer (src/ascii/cjk.ts):   *)
(* the three codepoint classification predicates, displayWidth, and        *)
(* drawCJKText writing onto a column-major canvas.                         *)
(*                                                                         *)
(* A string is a sequence of codepoints (the code iterates `for (const ch  *)
(* of str)`, i.e. by codepoint).  A canvas cell is a string: a blank cell  *)
(* is <<SP>>, a padding cell is <<CJK_PAD>>, and a glyph cell is the glyph *)
(* followed by any selectors appended to it.  The canvas is a function     *)
(* from column index (0-based) to a function from row index to cell,       *)
(* canvas[x][y] as in the code.                                            *)
(***************************************************************************)
EXTENDS Integers, Sequences, FiniteSets, TLC

VARIABLES
    canvas,      \* the caller-owned character grid, canvas[x][y]
    roleCanvas,  \* the caller-owned parallel role grid, roleCanvas[x][y]
    calls,       \* number of drawCJKText calls made so far
    last,        \* history: arguments, pre-state and trace of the last drawCJKText call
    wIn,         \* arguments of the displayWidth measurement
    wOut,        \* results of the displayWidth measurement
    phase        \* "init" | "drawn" | "measured"

vars == <<canvas, roleCanvas, calls, last, wIn, wOut, phase>>

----------------------------------------------------------------------------
\* Codepoints named in the source.

\* CJK_PAD = U+E000 (Private Use Area): the sentinel in the right half of a fullwidth glyph.
CJK_PAD == \he000
\* U+FE0F, VS16, the emoji presentation selector.
FE0F == \hfe0f
\* ' ', the blank cell content the overwrite rule tests for.
SP == \h20
\* Codepoints used to build the texts of the model.
LatinA == \h41
Zhong == \h4e2d
Warning == \h26a0
Watch == \h231a
ZWJ == \h200d

----------------------------------------------------------------------------
\* Classification tables.

\* isFullwidthChar: codepoints that are always two columns (East Asian Width W or F).
isFullwidthChar(code) ==
    \/ (code >= \h1100 /\ code <= \h115f)
    \/ (code >= \h2e80 /\ code <= \h2eff)
    \/ (code >= \h2f00 /\ code <= \h2fdf)
    \/ (code >= \h3000 /\ code <= \h303f)
    \/ (code >= \h3040 /\ code <= \h309f)
    \/ (code >= \h30a0 /\ code <= \h30ff)
    \/ (code >= \h3100 /\ code <= \h312f)
    \/ (code >= \h3130 /\ code <= \h318f)
    \/ (code >= \h3190 /\ code <= \h31ff)
    \/ (code >= \h3200 /\ code <= \h33ff)
    \/ (code >= \h3400 /\ code <= \h4dbf)
    \/ (code >= \h4e00 /\ code <= \h9fff)
    \/ (code >= \hac00 /\ code <= \hd7af)
    \/ (code >= \hf900 /\ code <= \hfaff)
    \/ (code >= \hfe30 /\ code <= \hfe4f)
    \/ (code >= \hff00 /\ code <= \hff60)
    \/ (code >= \hffe0 /\ code <= \hffe6)
    \/ (code = \h1f004)
    \/ (code = \h1f0cf)
    \/ (code = \h1f18e)
    \/ (code >= \h1f191 /\ code <= \h1f19a)
    \/ (code >= \h1f1e0 /\ code <= \h1f1ff)
    \/ (code >= \h1f200 /\ code <= \h1f202)
    \/ (code >= \h1f300 /\ code <= \h1f64f)
    \/ (code >= \h1f680 /\ code <= \h1f6ff)
    \/ (code >= \h1f900 /\ code <= \h1f9ff)
    \/ (code >= \h1fa00 /\ code <= \h1fa6f)
    \/ (code >= \h1fa70 /\ code <= \h1faff)
    \/ (code = \h231a)
    \/ (code = \h231b)
    \/ (code >= \h23e9 /\ code <= \h23ec)
    \/ (code = \h23f0)
    \/ (code = \h23f3)
    \/ (code = \h25fd)
    \/ (code = \h25fe)
    \/ (code = \h2614)
    \/ (code = \h2615)
    \/ (code >= \h2648 /\ code <= \h2653)
    \/ (code = \h267f)
    \/ (code = \h2693)
    \/ (code = \h26a1)
    \/ (code = \h26aa)
    \/ (code = \h26ab)
    \/ (code = \h26bd)
    \/ (code = \h26be)
    \/ (code = \h26c4)
    \/ (code = \h26c5)
    \/ (code = \h26ce)
    \/ (code = \h26d4)
    \/ (code = \h26ea)
    \/ (code = \h26f2)
    \/ (code = \h26f3)
    \/ (code = \h26f5)
    \/ (code = \h26fa)
    \/ (code = \h26fd)
    \/ (code = \h2705)
    \/ (code = \h270a)
    \/ (code = \h270b)
    \/ (code = \h2728)
    \/ (code = \h274c)
    \/ (code = \h274e)
    \/ (code >= \h2753 /\ code <= \h2755)
    \/ (code = \h2757)
    \/ (code >= \h2795 /\ code <= \h2797)
    \/ (code = \h27b0)
    \/ (code = \h27bf)
    \/ (code = \h2b1b)
    \/ (code = \h2b1c)
    \/ (code = \h2b50)
    \/ (code = \h2b55)
    \/ (code = \h3030)
    \/ (code = \h303d)
    \/ (code = \h3297)
    \/ (code = \h3299)
    \/ (code >= \h20000 /\ code <= \h2a6df)
    \/ (code >= \h2a700 /\ code <= \h2b73f)
    \/ (code >= \h2b740 /\ code <= \h2b81f)
    \/ (code >= \h2b820 /\ code <= \h2ceaf)
    \/ (code >= \h2ceb0 /\ code <= \h2ebef)
    \/ (code >= \h2f800 /\ code <= \h2fa1f)
    \/ (code >= \h30000 /\ code <= \h3134f)
    \/ (code >= \h31350 /\ code <= \h323af)
    \/ (code >= \h2ebf0 /\ code <= \h2f7ff)

\* isEmojiModifiable: one column by default, two when followed by VS16 (U+FE0F).
isEmojiModifiable(code) ==
    \/ (code = \h26a0)
    \/ (code = \h2702)
    \/ (code = \h2708)
    \/ (code = \h2709)
    \/ (code = \h270c)
    \/ (code = \h270d)
    \/ (code = \h270f)
    \/ (code = \h2712)
    \/ (code = \h2714)
    \/ (code = \h2716)
    \/ (code = \h271d)
    \/ (code = \h2721)
    \/ (code = \h2733)
    \/ (code = \h2734)
    \/ (code = \h2744)
    \/ (code = \h2747)
    \/ (code = \h2763)
    \/ (code = \h2764)
    \/ (code = \h27a1)
    \/ (code = \h2934)
    \/ (code = \h2935)
    \/ (code >= \h2b05 /\ code <= \h2b07)
    \/ (code = \h00a9)
    \/ (code = \h00ae)
    \/ (code = \h2122)
    \/ (code = \h2139)
    \/ (code >= \h2194 /\ code <= \h2199)
    \/ (code >= \h21a9 /\ code <= \h21aa)
    \/ (code = \h231a)
    \/ (code = \h231b)
    \/ (code >= \h23e9 /\ code <= \h23f3)
    \/ (code >= \h23f8 /\ code <= \h23fa)
    \/ (code = \h25aa)
    \/ (code = \h25ab)
    \/ (code = \h25b6)
    \/ (code = \h25c0)
    \/ (code = \h25fb)
    \/ (code = \h25fc)
    \/ (code = \h2600)
    \/ (code = \h2601)
    \/ (code >= \h2602 /\ code <= \h2604)
    \/ (code = \h260e)
    \/ (code = \h2611)
    \/ (code >= \h2618 /\ code <= \h261d)
    \/ (code = \h2620)
    \/ (code = \h2622)
    \/ (code = \h2623)
    \/ (code = \h2626)
    \/ (code = \h262a)
    \/ (code = \h262e)
    \/ (code = \h262f)
    \/ (code >= \h2638 /\ code <= \h263a)
    \/ (code = \h2640)
    \/ (code = \h2642)
    \/ (code >= \h2660 /\ code <= \h2668)
    \/ (code = \h267b)
    \/ (code = \h267e)

\* isZeroWidth: variation selectors, joiners, combining marks.
isZeroWidth(code) ==
    \/ (code >= \hfe00 /\ code <= \hfe0f)
    \/ (code = \h200b)
    \/ (code = \h200c)
    \/ (code = \h200d)
    \/ (code = \hfeff)
    \/ (code >= \he0100 /\ code <= \he01ef)
    \/ (code >= \h0300 /\ code <= \h036f)
    \/ (code >= \h0483 /\ code <= \h0489)
    \/ (code >= \h0591 /\ code <= \h05bd)
    \/ (code >= \h0610 /\ code <= \h061a)
    \/ (code >= \h064b /\ code <= \h065f)
    \/ (code >= \h20d0 /\ code <= \h20ff)

----------------------------------------------------------------------------
\* displayWidth

\* The accumulator state at loop entry: w = 0, prevWasNarrowEmoji = false.
WidthInit == [w |-> 0, prevWasNarrowEmoji |-> FALSE]

\* Mutant: the selector is treated as a plain zero-width codepoint (no upgrade).
WidthStepNoUpgrade(st, code) ==
    IF code = FE0F \/ isZeroWidth(code) THEN st
    ELSE IF isFullwidthChar(code)
         THEN [w |-> st.w + 2, prevWasNarrowEmoji |-> FALSE]
         ELSE [w |-> st.w + 1, prevWasNarrowEmoji |-> isEmojiModifiable(code)]

\* Mutant: a zero-width codepoint clears the lookback flag.
WidthStepZeroWidthClears(st, code) ==
    IF code = FE0F
    THEN IF st.prevWasNarrowEmoji
         THEN [w |-> st.w + 1, prevWasNarrowEmoji |-> FALSE]
         ELSE st
    ELSE IF isZeroWidth(code) THEN [st EXCEPT !.prevWasNarrowEmoji = FALSE]
    ELSE IF isFullwidthChar(code)
         THEN [w |-> st.w + 2, prevWasNarrowEmoji |-> FALSE]
         ELSE [w |-> st.w + 1, prevWasNarrowEmoji |-> isEmojiModifiable(code)]

\* Mutant: a zero-width codepoint is counted as an ordinary one-column glyph.
WidthStepZeroWidthCounted(st, code) ==
    IF code = FE0F
    THEN IF st.prevWasNarrowEmoji
         THEN [w |-> st.w + 1, prevWasNarrowEmoji |-> FALSE]
         ELSE st
    ELSE IF isFullwidthChar(code)
         THEN [w |-> st.w + 2, prevWasNarrowEmoji |-> FALSE]
         ELSE [w |-> st.w + 1, prevWasNarrowEmoji |-> isEmojiModifiable(code)]

\* One iteration of the loop of displayWidth on codepoint `code`.
WidthStep(st, code) ==
    IF code = FE0F
    THEN IF st.prevWasNarrowEmoji
         THEN [w |-> st.w + 1, prevWasNarrowEmoji |-> FALSE]
         ELSE st
    ELSE IF isZeroWidth(code) THEN st
    ELSE IF isFullwidthChar(code)
         THEN [w |-> st.w + 2, prevWasNarrowEmoji |-> FALSE]
         ELSE [w |-> st.w + 1, prevWasNarrowEmoji |-> isEmojiModifiable(code)]

RECURSIVE WidthScan(_, _)
\* The loop `for (const ch of str)` of displayWidth.
WidthScan(st, str) ==
    IF str = <<>> THEN st
    ELSE WidthScan(WidthStep(st, Head(str)), Tail(str))

\* displayWidth(str): the display width of str in terminal columns.
displayWidth(str) == WidthScan(WidthInit, str).w

----------------------------------------------------------------------------
\* The canvas.

\* canvas.length
Width(cv) == Cardinality(DOMAIN cv)

\* const h = canvas[0]?.length ?? 0
Height(cv) == IF 0 \in DOMAIN cv THEN Cardinality(DOMAIN cv[0]) ELSE 0

\* A blank canvas of the given size: every cell holds ' '.
BlankCanvas(width, height) ==
    [cx \in 0 .. width - 1 |-> [cy \in 0 .. height - 1 |-> <<SP>>]]

\* A role canvas of the given size with no role assigned yet.
BlankRoleCanvas(width, height) ==
    [cx \in 0 .. width - 1 |-> [cy \in 0 .. height - 1 |-> "none"]]

\* The per-cell bounds test `cx >= 0 && cx < canvas.length && y >= 0 && y < h`.
InBounds(cv, cx, y) ==
    cx >= 0 /\ cx < Width(cv) /\ y >= 0 /\ y < Height(cv)

\* canvas[cx]![y] = v.  An index that names no cell of the grid would throw
\* (undefined column) or create a cell outside the grid: recorded as a fault.
SetCell(st, cx, y, v) ==
    IF cx \in DOMAIN st.canvas /\ y \in DOMAIN st.canvas[cx]
    THEN [st EXCEPT !.canvas[cx][y] = v]
    ELSE [st EXCEPT !.fault = TRUE]

\* canvas[cx]![y] ?? ''
GetCell(cv, cx, y) ==
    IF cx \in DOMAIN cv /\ y \in DOMAIN cv[cx] THEN cv[cx][y] ELSE <<>>

\* if (roleCanvas && role !== undefined && cx < roleCanvas.length
\*     && y < (roleCanvas[0]?.length ?? 0)) roleCanvas[cx]![y] = role
SetRole(st, cx, y, role) ==
    IF role # "undefined" /\ cx < Width(st.roleCanvas) /\ y < Height(st.roleCanvas)
    THEN IF cx \in DOMAIN st.roleCanvas /\ y \in DOMAIN st.roleCanvas[cx]
         THEN [st EXCEPT !.roleCanvas[cx][y] = role]
         ELSE [st EXCEPT !.fault = TRUE]
    ELSE st

\* History: the write of kind "glyph", "append" or "pad" that the codepoint at
\* text index i caused at column col, or the "skip" of a glyph not written there.
Logged(st, i, kind, col) ==
    [st EXCEPT !.log = @ \cup {[i |-> i, kind |-> kind, col |-> col]}]

----------------------------------------------------------------------------
\* drawCJKText

\* The locals at loop entry: offset = 0, lastWrittenCx = -1, lastWasFullwidth = false.
DrawInit(cv, rc) ==
    [canvas |-> cv, roleCanvas |-> rc, offset |-> 0, lastWrittenCx |-> -1,
     lastWasFullwidth |-> FALSE, log |-> {}, fault |-> FALSE]

\* Mutant: the pad of a selector upgrade is written without the bounds test.
DrawSelectorPadUnchecked(st, call, i) ==
    LET lw == st.lastWrittenCx
        s1 == IF lw >= 0 /\ lw < Width(st.canvas) /\ call.y >= 0 /\ call.y < Height(st.canvas)
              THEN Logged(SetCell(st, lw, call.y,
                                  Append(GetCell(st.canvas, lw, call.y), call.text[i])),
                          i, "append", lw)
              ELSE st
    IN  IF ~ s1.lastWasFullwidth
        THEN LET px == call.x + s1.offset
                 s2 == Logged(SetCell(s1, px, call.y, <<CJK_PAD>>), i, "pad", px)
             IN  [s2 EXCEPT !.offset = @ + 1, !.lastWasFullwidth = TRUE]
        ELSE s1

\* The branch `if (code === 0xfe0f) { ... continue }`.
DrawSelector(st, call, i) ==
    LET lw == st.lastWrittenCx
        s1 == IF lw >= 0 /\ lw < Width(st.canvas) /\ call.y >= 0 /\ call.y < Height(st.canvas)
              THEN Logged(SetCell(st, lw, call.y,
                                  Append(GetCell(st.canvas, lw, call.y), call.text[i])),
                          i, "append", lw)
              ELSE st
    IN  IF ~ s1.lastWasFullwidth
        THEN LET px == call.x + s1.offset
                 s2 == IF InBounds(s1.canvas, px, call.y)
                       THEN Logged(SetCell(s1, px, call.y, <<CJK_PAD>>), i, "pad", px)
                       ELSE s1
             IN  [s2 EXCEPT !.offset = @ + 1, !.lastWasFullwidth = TRUE]
        ELSE s1

\* Mutant: lastWrittenCx is updated whether or not the glyph was written.
DrawGlyphAlwaysTracks(st, call, i) ==
    LET code == call.text[i]
        cx == call.x + st.offset
        written == /\ InBounds(st.canvas, cx, call.y)
                   /\ (call.forceOverwrite \/ st.canvas[cx][call.y] = <<SP>>)
        s1 == IF written
              THEN Logged(SetRole(SetCell(st, cx, call.y, <<code>>), cx, call.y, call.role),
                          i, "glyph", cx)
              ELSE Logged(st, i, "skip", cx)
        s2 == [s1 EXCEPT !.lastWrittenCx = cx, !.offset = @ + 1]
    IN  IF isFullwidthChar(code)
        THEN LET px == call.x + s2.offset
                 s3 == IF written /\ InBounds(s2.canvas, px, call.y)
                       THEN Logged(SetCell(s2, px, call.y, <<CJK_PAD>>), i, "pad", px)
                       ELSE s2
             IN  [s3 EXCEPT !.lastWasFullwidth = TRUE, !.offset = @ + 1]
        ELSE [s2 EXCEPT !.lastWasFullwidth = FALSE]

\* The normal-glyph part of the loop body (from `const cx = x + offset` on).
DrawGlyph(st, call, i) ==
    LET code == call.text[i]
        cx == call.x + st.offset
        written == /\ InBounds(st.canvas, cx, call.y)
                   /\ (call.forceOverwrite \/ st.canvas[cx][call.y] = <<SP>>)
        s1 == IF written
              THEN Logged(SetRole(SetCell(st, cx, call.y, <<code>>), cx, call.y, call.role),
                          i, "glyph", cx)
              ELSE Logged(st, i, "skip", cx)
        s2 == [s1 EXCEPT !.lastWrittenCx = IF written THEN cx ELSE @,
                         !.offset = @ + 1]
    IN  IF isFullwidthChar(code)
        THEN LET px == call.x + s2.offset
                 s3 == IF written /\ InBounds(s2.canvas, px, call.y)
                       THEN Logged(SetCell(s2, px, call.y, <<CJK_PAD>>), i, "pad", px)
                       ELSE s2
             IN  [s3 EXCEPT !.lastWasFullwidth = TRUE, !.offset = @ + 1]
        ELSE [s2 EXCEPT !.lastWasFullwidth = FALSE]

\* One iteration of the loop of drawCJKText on the codepoint at text index i.
DrawStep(st, call, i) ==
    IF call.text[i] = FE0F THEN DrawSelector(st, call, i)
    ELSE IF isZeroWidth(call.text[i]) THEN st
    ELSE DrawGlyph(st, call, i)

RECURSIVE DrawScan(_, _, _)
\* The loop `for (const ch of text)` of drawCJKText.
DrawScan(st, call, i) ==
    IF i > Len(call.text) THEN st
    ELSE DrawScan(DrawStep(st, call, i), call, i + 1)

\* drawCJKText(canvas, x, y, text, forceOverwrite, roleCanvas, role), with
\* call = [x, y, text, forceOverwrite, role]; returns the final locals and grids.
drawCJKText(cv, rc, call) == DrawScan(DrawInit(cv, rc), call, 1)

----------------------------------------------------------------------------
\* Bounds and inputs.

MaxW == 3
MaxH == 1
MaxLen == 3
MaxCalls == 2
MaxStr == 3

RECURSIVE SeqsUpTo(_, _)
\* All sequences over S of length at most n.
SeqsUpTo(S, n) ==
    IF n = 0 THEN {<<>>}
    ELSE LET shorter == SeqsUpTo(S, n - 1)
         IN  shorter \cup {Append(s, c) : s \in shorter, c \in S}

\* Texts drawn: a narrow glyph, a fullwidth glyph, the selector, a joiner.
DrawAlphabet == {LatinA, Zhong, FE0F, ZWJ}
Texts == SeqsUpTo(DrawAlphabet, MaxLen)
\* Start columns and rows, one step outside the largest grid on either side.
Columns == -1 .. MaxW
Rows == -1 .. MaxH
\* The role argument: a role is passed exactly when a role canvas is
\* ("role - Character role to assign (requires roleCanvas)").
RoleArg(rc) == IF rc = <<>> THEN "undefined" ELSE "text"

\* Strings measured: narrow, fullwidth, upgrade-eligible, both, selector, joiner.
WidthAlphabet == {LatinA, Zhong, Warning, Watch, FE0F, ZWJ}
\* The first and last codepoint of every range of the three tables.
RangeEnds ==
    {\hfe00, \hfe0f, \h200b, \h200c, \h200d, \hfeff, \he0100, \he01ef,
     \h0300, \h036f, \h0483, \h0489, \h0591, \h05bd, \h0610, \h061a,
     \h064b, \h065f, \h20d0, \h20ff}
ZeroWidthCodes == {c \in RangeEnds : isZeroWidth(c)}
\* Every upgrade-eligible codepoint (the table's largest entry is U+2B07).
MaxCode == 11100
Modifiable == {c \in 0 .. MaxCode : isEmojiModifiable(c)}
WidthStrings ==
    SeqsUpTo(WidthAlphabet, MaxStr)
        \cup {<<c>> : c \in Modifiable} \cup {<<c, FE0F>> : c \in Modifiable}

\* str with codepoint z inserted after its first pos codepoints.
Insert(str, pos, z) ==
    SubSeq(str, 1, pos) \o <<z>> \o SubSeq(str, pos + 1, Len(str))

----------------------------------------------------------------------------
\* State machine.

NoCall ==
    [x |-> 0, y |-> 0, text |-> <<>>, forceOverwrite |-> FALSE, role |-> "undefined",
     pre |-> <<>>, offset |-> 0, log |-> {}, fault |-> FALSE]
NoWidthIn == [s |-> <<>>, pos |-> 0, z |-> FE0F]
NoWidthOut == [base |-> 0, inserted |-> 0]

\* A freshly allocated blank canvas (possibly empty); the caller either keeps
\* a role canvas of the same size or none (modelled as the empty role canvas).
Init ==
    /\ \E w \in 0 .. MaxW, h \in 0 .. MaxH :
          /\ canvas = BlankCanvas(w, h)
          /\ roleCanvas \in {BlankRoleCanvas(w, h), BlankRoleCanvas(0, 0)}
    /\ calls = 0
    /\ last = NoCall
    /\ wIn = NoWidthIn
    /\ wOut = NoWidthOut
    /\ phase = "init"

\* One call drawCJKText(canvas, x, y, text, forceOverwrite, roleCanvas, role).
Draw ==
    /\ phase = "init"
    /\ calls < MaxCalls
    /\ \E x \in Columns, y \in Rows, text \in Texts, f \in BOOLEAN :
          LET role == RoleArg(roleCanvas)
              call == [x |-> x, y |-> y, text |-> text, forceOverwrite |-> f, role |-> role]
              res == drawCJKText(canvas, roleCanvas, call)
          IN  /\ canvas' = res.canvas
              /\ roleCanvas' = res.roleCanvas
              /\ last' = [x |-> x, y |-> y, text |-> text, forceOverwrite |-> f,
                          role |-> role, pre |-> canvas, offset |-> res.offset,
                          log |-> res.log, fault |-> res.fault]
    /\ calls' = calls + 1
    /\ phase' = "drawn"
    /\ UNCHANGED <<wIn, wOut>>

\* The call has returned: its arguments and locals are gone, the grids remain.
Return ==
    /\ phase = "drawn"
    /\ last' = NoCall
    /\ phase' = "init"
    /\ UNCHANGED <<canvas, roleCanvas, calls, wIn, wOut>>

Next == Draw \/ Return

Spec == Init /\ [][Next]_vars

\* displayWidth as a pure function: the inputs are drawn by InitWidth.
InitWidth ==
    /\ canvas = BlankCanvas(0, 0)
    /\ roleCanvas = BlankRoleCanvas(0, 0)
    /\ calls = 0
    /\ last = NoCall
    /\ \E s \in WidthStrings, z \in ZeroWidthCodes :
          \E pos \in 0 .. Len(s) : wIn = [s |-> s, pos |-> pos, z |-> z]
    /\ wOut = NoWidthOut
    /\ phase = "init"

\* Measure s and s with z inserted at pos.
Measure ==
    /\ phase = "init"
    /\ wOut' = [base |-> displayWidth(wIn.s),
                inserted |-> displayWidth(Insert(wIn.s, wIn.pos, wIn.z))]
    /\ phase' = "measured"
    /\ UNCHANGED <<canvas, roleCanvas, calls, last, wIn>>

NextWidth == Measure

SpecWidth == InitWidth /\ [][NextWidth]_vars

----------------------------------------------------------------------------
\* Properties of drawCJKText (specification Spec).

Drawn == phase = "drawn"

\* The codepoint takes the normal-glyph path of the loop.
IsGlyph(code) == code # FE0F /\ ~ isZeroWidth(code)

\* The events of the last call of one kind.
Events(kind) == {e \in last.log : e.kind = kind}

\* The glyph at text index i was written into its own cell by the last call.
GlyphWritten(i) == \E g \in Events("glyph") : g.i = i

\* The cells the text puts into columns 0, 1, ... of its span: the text drawn
\* at column 0 of a blank one-row canvas wide enough to hold it.
Layout(text) ==
    drawCJKText(BlankCanvas(2 * Len(text) + 1, 1), BlankRoleCanvas(0, 0),
                [x |-> 0, y |-> 0, text |-> text, forceOverwrite |-> TRUE,
                 role |-> "undefined"]).canvas

\* C1: with overwrite disabled, every cell that held a non-blank value before
\* the call holds the same value after it (the padding cells included).
C1_NonBlankPreserved ==
    (Drawn /\ ~ last.forceOverwrite) =>
        \A cx \in DOMAIN last.pre : \A cy \in DOMAIN last.pre[cx] :
            last.pre[cx][cy] # <<SP>> => canvas[cx][cy] = last.pre[cx][cy]

\* The glyph that precedes the pad written at text index i was written by the call.
PadJustified(i) ==
    IF last.text[i] # FE0F
    THEN GlyphWritten(i)
    ELSE \E k \in 1 .. i - 1 :
            /\ IsGlyph(last.text[k])
            /\ \A j \in k + 1 .. i - 1 : ~ IsGlyph(last.text[j])
            /\ GlyphWritten(k)

\* C2: the padding sentinel is written if and only if the glyph that precedes
\* it in the text was written by this call: every pad follows a written glyph,
\* and every written double-width glyph whose next column is in bounds gets one.
C2_PadIffGlyphWritten ==
    Drawn =>
        /\ \A e \in Events("pad") : PadJustified(e.i)
        /\ \A g \in Events("glyph") :
              (isFullwidthChar(last.text[g.i]) /\ InBounds(canvas, g.col + 1, last.y))
                  => \E e \in Events("pad") : e.i = g.i /\ e.col = g.col + 1

\* C3: a selector that directly follows a skipped glyph is attached to no cell.
C3_SelectorAfterSkipNotAttached ==
    Drawn =>
        \A i \in 2 .. Len(last.text) :
            (last.text[i] = FE0F /\ IsGlyph(last.text[i - 1]) /\ ~ GlyphWritten(i - 1))
                => ~ \E e \in Events("append") : e.i = i

\* C4: the selector is appended only to a cell whose glyph this call wrote
\* earlier; a cell the call did not write never gets the selector appended.
C4_SelectorOnlyOnOwnCell ==
    Drawn =>
        /\ \A e \in Events("append") :
              \E g \in Events("glyph") : g.col = e.col /\ g.i < e.i
        /\ \A cx \in DOMAIN canvas : \A cy \in DOMAIN canvas[cx] :
              (~ \E g \in Events("glyph") : g.col = cx /\ last.y = cy)
                  => canvas[cx][cy] # Append(last.pre[cx][cy], FE0F)

\* C4 witness: a glyph was blocked by pre-existing content, the selector
\* follows it, and the pre-existing cell is as it was.
C4_Witness ==
    /\ Drawn
    /\ \E e \in Events("skip") :
          /\ InBounds(canvas, e.col, last.y)
          /\ last.pre[e.col][last.y] # <<SP>>
          /\ e.i < Len(last.text)
          /\ last.text[e.i + 1] = FE0F
          /\ canvas[e.col][last.y] = last.pre[e.col][last.y]

\* C5: after any sequence of calls on an initially blank grid, every cell that
\* holds a double-width glyph is followed, in its row, by a padding cell.
C5_FullwidthFollowedByPad ==
    \A cx \in DOMAIN canvas : \A cy \in DOMAIN canvas[cx] :
        (canvas[cx][cy] # <<>> /\ isFullwidthChar(Head(canvas[cx][cy])))
            => /\ cx + 1 \in DOMAIN canvas
               /\ canvas[cx + 1][cy] = <<CJK_PAD>>

\* C8: with overwrite enabled, every in-bounds cell of the row within the span
\* the text consumes holds the value the text puts there.
C8_SpanHoldsText ==
    (Drawn /\ last.forceOverwrite) =>
        \A k \in 0 .. last.offset - 1 :
            InBounds(canvas, last.x + k, last.y)
                => canvas[last.x + k][last.y] = Layout(last.text)[k][0]

\* C9: the call raises no fault, keeps the grid's shape, and changes only
\* in-bounds cells of row y within the span the text consumes; every write it
\* makes is in bounds, and nothing changes when the row is out of bounds.
C9_OnlySpanCellsChange ==
    Drawn =>
        /\ ~ last.fault
        /\ DOMAIN canvas = DOMAIN last.pre
        /\ \A cx \in DOMAIN canvas :
              /\ DOMAIN canvas[cx] = DOMAIN last.pre[cx]
              /\ \A cy \in DOMAIN canvas[cx] :
                    canvas[cx][cy] # last.pre[cx][cy]
                        => cy = last.y /\ cx >= last.x /\ cx < last.x + last.offset
        /\ \A e \in last.log :
              e.kind # "skip" => InBounds(last.pre, e.col, last.y)
        /\ (last.y < 0 \/ last.y >= Height(last.pre)) => canvas = last.pre

\* C9 witness: text hanging off both edges of the grid, part of it drawn.
C9_Witness ==
    /\ Drawn
    /\ last.x < 0
    /\ last.x + last.offset > Width(canvas)
    /\ canvas # last.pre
    /\ Events("skip") # {}

----------------------------------------------------------------------------
\* Properties of displayWidth (specification SpecWidth).

Measured == phase = "measured"

\* The measurement is of a single codepoint c and of c followed by U+FE0F.
SelectorAfter(c) == wIn = [s |-> <<c>>, pos |-> 1, z |-> FE0F]

C7_ZeroWidthInsertion ==
    Measured => wOut.inserted = wOut.base

\* C7 amended: inserting a zero-width codepoint other than U+FE0F leaves
\* displayWidth unchanged.
C7_ZeroWidthInsertionExceptSelector ==
    (Measured /\ wIn.z # FE0F) => wOut.inserted = wOut.base

\* C7 witness: a joiner inserted between an upgradable glyph and its selector.
C7_Witness ==
    /\ Measured
    /\ wIn = [s |-> <<Warning, FE0F>>, pos |-> 1, z |-> ZWJ]
    /\ wOut.base = 2

\* The measurement is of c U+FE0F and of c z U+FE0F, z zero-width, not U+FE0F.
ZeroWidthBeforeSelector(c) ==
    wIn.s = <<c, FE0F>> /\ wIn.pos = 1 /\ wIn.z # FE0F /\ isZeroWidth(wIn.z)

\* C10 as stated: a zero-width codepoint clears the lookback flag, so that
\* c z U+FE0F is not upgraded and has width 1.
C10_ZeroWidthClearsLookback ==
    Measured =>
        \A c \in Modifiable : ZeroWidthBeforeSelector(c) => wOut.inserted = 1

\* C10 amended: a zero-width codepoint contributes 0 columns and leaves the
\* lookback flag as it is, so that c z U+FE0F is upgraded and has width 2.
C10_ZeroWidthKeepsLookback ==
    Measured =>
        \A c \in Modifiable : ZeroWidthBeforeSelector(c) => wOut.inserted = 2

\* C10 witness: a combining mark between U+26A0 and the selector.
C10_Witness ==
    /\ Measured
    /\ wIn = [s |-> <<Warning, FE0F>>, pos |-> 1, z |-> \h0300]
    /\ wOut.inserted = 2

----------------------------------------------------------------------------
\* drawCJKText against displayWidth (specification Spec).

\* The grid before the last call was blank and holds the whole span of the text.
BlankAndFits ==
    /\ last.pre = BlankCanvas(Width(last.pre), Height(last.pre))
    /\ InBounds(last.pre, last.x, last.y)
    /\ last.x + last.offset <= Width(last.pre)

\* The cells of row y that are not blank after the last call.
NonBlankInRow ==
    {cx \in DOMAIN canvas : InBounds(canvas, cx, last.y) /\ canvas[cx][last.y] # <<SP>>}

\* C11: drawCJKText applies the width rules of displayWidth: the columns it
\* advances equal displayWidth(text), and on a blank grid that holds the text
\* (no space glyphs in it) so does the number of cells it makes non-blank.
C11_AdvanceEqualsDisplayWidth ==
    Drawn =>
        /\ last.offset = displayWidth(last.text)
        /\ (BlankAndFits /\ \A i \in 1 .. Len(last.text) : last.text[i] # SP)
              => Cardinality(NonBlankInRow) = displayWidth(last.text)

====
